---- MODULE Spec2Model ----
(***************************************************************************)
(* Model of the landslide early-warning core of isa-geospatial-alerts:     *)
(*   - dashboard/app.py: threshold matrix, 72 h rolling accumulation,      *)
(*     scalar and per-sample alert evaluation, dwell-time statistics;      *)
(*     fleet evaluation of every tower;                                    *)
(*   - dashboard/procesar_raster.py: quantile classification of a raster,  *)
(*     reprojection to WGS84, sampling of the raster at the towers.        *)
(* Rainfall is held in thousandths of a millimetre so that values such as  *)
(* 199.999 mm are integers.                                                *)
(***************************************************************************)
EXTENDS Integers, Sequences, FiniteSets, TLC

VARIABLES
    pc,                     \* position of the script / function being run
    umbrales_df,            \* threshold matrix: sequence of rows
    amenaza,                \* hazard name of the tower (Amenaza_SGC)
    lluvia_72h,             \* accumulated rainfall handed to the scalar evaluator
    resultado,              \* tuple returned by calcular_nivel_alerta, <<>> before
    alerta_temporal,        \* name returned by calcular_alerta_temporal, "" before
    precipitation,          \* df_lluvia_torre['precipitation']
    precip_acum_72h,        \* df_lluvia_torre['precip_acum_72h']
    nivel_alerta_temporal,  \* df_lluvia_torre['nivel_alerta_temporal']
    estadisticas,           \* tiempo_roja/amarilla/verde, total_horas, deltas
    data,                   \* band 1 of the susceptibility raster, cell by cell
    NoData_value,           \* src.nodata
    umbrales_raster,        \* (umbral_bajo, umbral_alto) of the classification
    classified_data,        \* the classified raster
    escritos,               \* output files the running call has created
    crs_resuelto,           \* whether src.crs and dst_crs can be resolved
    reproyectado,           \* band 1 of the raster reprojected to WGS84
    torres_csv,             \* the tower file read by extraer_valores_torres
    torres_df_raster,       \* torres_df of extraer_valores_torres
    torres_archivo,         \* the tower table loaded by the dashboard
    torres_df,              \* torres_df of the dashboard script
    respuestas,             \* what the weather API answered for each tower
    datos_lluvia,           \* datos_lluvia of the dashboard script
    stdout                  \* what pipeline_completo and its stages have printed

alertaVars == <<umbrales_df, amenaza, lluvia_72h, resultado, alerta_temporal,
                precipitation, precip_acum_72h, nivel_alerta_temporal, estadisticas>>

rasterVars == <<data, NoData_value, umbrales_raster, classified_data>>

reproVars == <<crs_resuelto, reproyectado>>

torresVars == <<torres_csv, torres_df_raster>>

flotaVars == <<torres_archivo, torres_df, respuestas, datos_lluvia>>

vars == <<pc, escritos, alertaVars, rasterVars, reproVars, torresVars, flotaVars, stdout>>

-----------------------------------------------------------------------------
(* Units and bounds *)

Mm(n) == n * 1000

\* rolling(window=72, ...)
Window == 72

\* longest precipitation series fetched
MaxLen == 100

\* most rows of a threshold file
MaxFilas == 2

-----------------------------------------------------------------------------
(* ThresholdMatrix: cargar_umbrales *)

Fila(nivel, verde, amarillo, rojo) ==
    [Amenaza_Nivel |-> nivel, Umbral_Verde_mm |-> verde,
     Umbral_Amarillo_mm |-> amarillo, Umbral_Rojo_mm |-> rojo]

UmbralesPorDefecto ==
    << Fila("Muy Baja", Mm(200), Mm(250), Mm(300)),
       Fila("Baja",     Mm(150), Mm(200), Mm(250)),
       Fila("Media",    Mm(120), Mm(150), Mm(200)),
       Fila("Alta",     Mm(80),  Mm(100), Mm(120)),
       Fila("Muy Alta", Mm(60),  Mm(80),  Mm(100)) >>

\* archivo: [existe |-> BOOLEAN, filas |-> rows of umbrales_lluvia.csv]
cargar_umbrales(archivo) ==
    IF archivo.existe THEN archivo.filas ELSE UmbralesPorDefecto

-----------------------------------------------------------------------------
(* AlertEvaluator, scalar form: calcular_nivel_alerta *)

\* umbrales_df[umbrales_df['Amenaza_Nivel'] == amenaza]
FilasDe(df, nivel) == SelectSeq(df, LAMBDA fila : fila.Amenaza_Nivel = nivel)

\* variant: strict comparisons, a boundary value falls in the lower state
calcular_nivel_alerta_estricto(nivel, lluvia, df) ==
    LET umbral == FilasDe(df, nivel) IN
    IF umbral = << >>
    THEN <<"VERDE", "circulo_verde", 0>>
    ELSE IF lluvia > umbral[1].Umbral_Rojo_mm
         THEN <<"ROJA", "circulo_rojo", 3>>
         ELSE IF lluvia > umbral[1].Umbral_Amarillo_mm
              THEN <<"AMARILLA", "circulo_amarillo", 2>>
              ELSE <<"VERDE", "circulo_verde", 1>>

\* variant: no guard for a hazard without a row, .values[0] raises
calcular_nivel_alerta_sin_guarda(nivel, lluvia, df) ==
    LET umbral == FilasDe(df, nivel) IN
    IF umbral = << >>
    THEN <<"IndexError", "", 0>>
    ELSE IF lluvia >= umbral[1].Umbral_Rojo_mm
         THEN <<"ROJA", "circulo_rojo", 3>>
         ELSE IF lluvia >= umbral[1].Umbral_Amarillo_mm
              THEN <<"AMARILLA", "circulo_amarillo", 2>>
              ELSE <<"VERDE", "circulo_verde", 1>>

\* variant: a value under the green boundary gets priority 0
calcular_nivel_alerta_con_verde(nivel, lluvia, df) ==
    LET umbral == FilasDe(df, nivel) IN
    IF umbral = << >>
    THEN <<"VERDE", "circulo_verde", 0>>
    ELSE IF lluvia >= umbral[1].Umbral_Rojo_mm
         THEN <<"ROJA", "circulo_rojo", 3>>
         ELSE IF lluvia >= umbral[1].Umbral_Amarillo_mm
              THEN <<"AMARILLA", "circulo_amarillo", 2>>
              ELSE IF lluvia >= umbral[1].Umbral_Verde_mm
                   THEN <<"VERDE", "circulo_verde", 1>>
                   ELSE <<"VERDE", "circulo_verde", 0>>

calcular_nivel_alerta(nivel, lluvia, df) ==
    LET umbral == FilasDe(df, nivel) IN
    IF umbral = << >>
    THEN <<"VERDE", "circulo_verde", 0>>
    ELSE LET umbral_rojo     == umbral[1].Umbral_Rojo_mm
             umbral_amarillo == umbral[1].Umbral_Amarillo_mm
         IN  IF lluvia >= umbral_rojo
             THEN <<"ROJA", "circulo_rojo", 3>>
             ELSE IF lluvia >= umbral_amarillo
                  THEN <<"AMARILLA", "circulo_amarillo", 2>>
                  ELSE <<"VERDE", "circulo_verde", 1>>

\* variant: ascending checks, the yellow boundary is tried first
calcular_alerta_temporal_ascendente(lluvia, nivel) ==
    LET umbral == FilasDe(umbrales_df, nivel) IN
    IF umbral = << >>
    THEN "VERDE"
    ELSE IF lluvia >= umbral[1].Umbral_Amarillo_mm
         THEN "AMARILLA"
         ELSE IF lluvia >= umbral[1].Umbral_Rojo_mm
              THEN "ROJA"
              ELSE "VERDE"

\* variant: the red comparison is inverted
calcular_alerta_temporal_invertida(lluvia, nivel) ==
    LET umbral == FilasDe(umbrales_df, nivel) IN
    IF umbral = << >>
    THEN "VERDE"
    ELSE IF lluvia <= umbral[1].Umbral_Rojo_mm
         THEN "ROJA"
         ELSE IF lluvia >= umbral[1].Umbral_Amarillo_mm
              THEN "AMARILLA"
              ELSE "VERDE"

\* variant: the yellow boundary itself still counts as green
calcular_alerta_temporal_estricto(lluvia, nivel) ==
    LET umbral == FilasDe(umbrales_df, nivel) IN
    IF umbral = << >>
    THEN "VERDE"
    ELSE IF lluvia >= umbral[1].Umbral_Rojo_mm
         THEN "ROJA"
         ELSE IF lluvia > umbral[1].Umbral_Amarillo_mm
              THEN "AMARILLA"
              ELSE "VERDE"

(* AlertEvaluator, per-sample form: calcular_alerta_temporal (reads the
   module-level umbrales_df) *)
calcular_alerta_temporal(lluvia, nivel) ==
    LET umbral == FilasDe(umbrales_df, nivel) IN
    IF umbral = << >>
    THEN "VERDE"
    ELSE LET umbral_rojo     == umbral[1].Umbral_Rojo_mm
             umbral_amarillo == umbral[1].Umbral_Amarillo_mm
         IN  IF lluvia >= umbral_rojo
             THEN "ROJA"
             ELSE IF lluvia >= umbral_amarillo
                  THEN "AMARILLA"
                  ELSE "VERDE"

-----------------------------------------------------------------------------
(* RollingAccumulator: Series.rolling(window, min_periods=1).sum()
   One forward pass with a running sum: the entering sample is added and the
   sample that left the window is removed.  With min_periods = 1 every window
   holds at least the current sample, so every entry is defined. *)

\* variant: the window is one sample short
RECURSIVE rolling_pass_corto(_, _, _, _, _)
rolling_pass_corto(values, window, i, sum_x, out) ==
    IF Len(out) >= Len(values)
    THEN out
    ELSE LET leaving == IF i >= window THEN values[i - window + 1] ELSE 0
         IN  rolling_pass_corto(values, window, i + 1, sum_x + values[i] - leaving,
                                Append(out, sum_x + values[i] - leaving))

\* variant: nothing ever leaves the window (a cumulative sum)
RECURSIVE rolling_pass_acumulado(_, _, _, _, _)
rolling_pass_acumulado(values, window, i, sum_x, out) ==
    IF Len(out) >= Len(values)
    THEN out
    ELSE rolling_pass_acumulado(values, window, i + 1, sum_x + values[i],
                                Append(out, sum_x + values[i]))

RECURSIVE rolling_pass(_, _, _, _, _)
rolling_pass(values, window, i, sum_x, out) ==
    IF Len(out) >= Len(values)
    THEN out
    ELSE LET leaving == IF i > window THEN values[i - window] ELSE 0
         IN  rolling_pass(values, window, i + 1, sum_x + values[i] - leaving,
                          Append(out, sum_x + values[i] - leaving))

rolling_sum(values, window) == rolling_pass(values, window, 1, 0, << >>)

\* variant: the alert latches, a sample never reports less than the one before
apply_alerta_retenida(serie, nivel) ==
    [i \in 1..Len(serie) |->
        LET previas == {calcular_alerta_temporal(serie[j], nivel) : j \in 1..i}
        IN  IF "ROJA" \in previas THEN "ROJA"
            ELSE IF "AMARILLA" \in previas THEN "AMARILLA"
            ELSE "VERDE"]

\* df['precip_acum_72h'].apply(lambda x: calcular_alerta_temporal(x, amenaza))
apply_alerta(serie, nivel) ==
    [i \in 1..Len(serie) |-> calcular_alerta_temporal(serie[i], nivel)]

-----------------------------------------------------------------------------
(* Dwell-time statistics *)

\* variant: the first sample is left out of the count
ContarDesdeSegunda(serie, nivel) ==
    Cardinality({i \in 2..Len(serie) : serie[i] = nivel})

\* (df['nivel_alerta_temporal'] == nivel).sum()
Contar(serie, nivel) == Cardinality({i \in 1..Len(serie) : serie[i] = nivel})

\* f"{tiempo/total_horas*100:.1f}%": the tenths of a percent nearest to
\* tiempo/total_horas*100.  On an exact tie the binary rounding of the quotient
\* decides, so both neighbours are possible outcomes.
Deltas(tiempo, total) ==
    LET piso == (1000 * tiempo) \div total
    IN  {d \in {piso, piso + 1} : 2 * d * total - 2000 * tiempo \in (0 - total)..total}

SinEstadisticas ==
    [tiempo_roja |-> 0, tiempo_amarilla |-> 0, tiempo_verde |-> 0,
     total_horas |-> 0, delta_roja |-> 0, delta_amarilla |-> 0, delta_verde |-> 0]

\* every sequence over S of length at most n
RECURSIVE SeqsHasta(_, _)
SeqsHasta(S, n) ==
    IF n = 0 THEN {<< >>}
    ELSE LET menores == SeqsHasta(S, n - 1)
         IN  menores \cup {Append(s, x) : s \in {t \in menores : Len(t) = n - 1}, x \in S}

-----------------------------------------------------------------------------
(* RasterClassifier: clasificar_raster_amenaza.
   Thresholds are held a hundred times their value, so that the linear
   interpolation of np.quantile at 0.33 and 0.66 stays in the integers. *)

SinUmbrales == [nan |-> FALSE, bajo100 |-> 0, alto100 |-> 0]

SinRaster ==
    /\ data = << >>
    /\ NoData_value = 0
    /\ umbrales_raster = SinUmbrales
    /\ classified_data = << >>

\* nothing reprojected, sampled or evaluated for the fleet
SinReproyeccion ==
    /\ crs_resuelto = [src |-> TRUE, dst |-> TRUE]
    /\ reproyectado = << >>

SinTorres ==
    /\ torres_csv = [existe |-> FALSE, filas |-> << >>]
    /\ torres_df_raster = << >>

SinFlota ==
    /\ torres_archivo = << >>
    /\ torres_df = << >>
    /\ respuestas = << >>
    /\ datos_lluvia = << >>

\* data[data != NoData_value]
valores_reales(celdas, nodata) == SelectSeq(celdas, LAMBDA v : v # nodata)

RECURSIVE Insertar(_, _)
Insertar(ordenada, x) ==
    IF ordenada = << >> THEN <<x>>
    ELSE IF x <= Head(ordenada) THEN <<x>> \o ordenada
         ELSE <<Head(ordenada)>> \o Insertar(Tail(ordenada), x)

RECURSIVE Ordenar(_)
Ordenar(valores) ==
    IF valores = << >> THEN << >>
    ELSE Insertar(Ordenar(Tail(valores)), Head(valores))

\* 100 * np.quantile(valores, q100 / 100) for a non-empty array: the value at
\* the virtual index (n - 1) * q of the sorted array, interpolated linearly
\* between its two neighbours
Cuantil100(valores, q100) ==
    LET x    == Ordenar(valores)
        h100 == q100 * (Len(x) - 1)
        j    == h100 \div 100
        g100 == h100 % 100
    IN  IF g100 = 0
        THEN 100 * x[j + 1]
        ELSE 100 * x[j + 1] + g100 * (x[j + 2] - x[j + 1])

\* variant: the middle band takes the cells equal to umbral_bajo
ClasificadaInclusiva(celdas, nodata, u) ==
    [i \in 1..Len(celdas) |->
        IF u.nan THEN 0
        ELSE IF 100 * celdas[i] > u.alto100 THEN 3
        ELSE IF 100 * celdas[i] >= u.bajo100 THEN 2
        ELSE IF celdas[i] > nodata THEN 1
        ELSE 0]

\* the three masked assignments on np.zeros(data.shape), in program order
\* (a comparison with nan is False)
Clasificada(celdas, nodata, u) ==
    LET ceros == [i \in 1..Len(celdas) |-> 0]
        paso1 == [i \in 1..Len(celdas) |->
                    IF ~u.nan /\ celdas[i] > nodata /\ 100 * celdas[i] <= u.bajo100
                    THEN 1 ELSE ceros[i]]
        paso2 == [i \in 1..Len(celdas) |->
                    IF ~u.nan /\ 100 * celdas[i] > u.bajo100 /\ 100 * celdas[i] <= u.alto100
                    THEN 2 ELSE paso1[i]]
        paso3 == [i \in 1..Len(celdas) |->
                    IF ~u.nan /\ 100 * celdas[i] > u.alto100
                    THEN 3 ELSE paso2[i]]
    IN  paso3

\* cell values of the input raster, and the sentinels it may declare: below,
\* between and above the values
MaxValor == 2

MaxCeldas == 6

Sentinelas == {0 - 1, 1, MaxValor + 6}

Rasters(nodata) ==
    SeqsHasta((0..MaxValor) \cup {nodata}, MaxCeldas) \ {<< >>}

InitRaster ==
    /\ pc = "clasificar"
    /\ NoData_value \in Sentinelas
    /\ data \in Rasters(NoData_value)
    /\ umbrales_raster = SinUmbrales
    /\ classified_data = << >>
    /\ umbrales_df = << >>
    /\ amenaza = ""
    /\ lluvia_72h = 0
    /\ resultado = << >>
    /\ alerta_temporal = ""
    /\ precipitation = << >>
    /\ precip_acum_72h = << >>
    /\ nivel_alerta_temporal = << >>
    /\ estadisticas = SinEstadisticas
    /\ escritos = {}
    /\ stdout = << >>
    /\ SinReproyeccion
    /\ SinTorres
    /\ SinFlota

\* plt.savefig('histograma_amenaza.png') and, after the classification,
\* rasterio.open(ruta_out, 'w') with dst.write: the histogram is on disk before
\* the raster is opened for writing, and that open may fail (missing output
\* directory, no permission)
GuardarClasificado ==
    \/ /\ escritos' = escritos \cup {"histograma_amenaza.png", "ruta_out"}
       /\ pc' = "clasificado"
    \/ /\ escritos' = escritos \cup {"histograma_amenaza.png"}
       /\ pc' = "RasterioIOError"

\* the raster holds at least one cell that is not NoData
Clasificar ==
    /\ pc = "clasificar"
    /\ valores_reales(data, NoData_value) # << >>
    /\ LET reales == valores_reales(data, NoData_value)
           u == [nan |-> FALSE, bajo100 |-> Cuantil100(reales, 33),
                 alto100 |-> Cuantil100(reales, 66)]
       IN  /\ umbrales_raster' = u
           /\ classified_data' = Clasificada(data, NoData_value, u)
    /\ GuardarClasificado
    /\ UNCHANGED <<data, NoData_value, alertaVars, reproVars, torresVars, flotaVars, stdout>>

\* every cell is NoData: np.quantile of an empty array raises IndexError or,
\* depending on the numpy release, warns and returns nan, and the function
\* goes on to the histogram and to a raster of zeros
ClasificarVacio ==
    /\ pc = "clasificar"
    /\ valores_reales(data, NoData_value) = << >>
    /\ \/ /\ pc' = "IndexError"
          /\ UNCHANGED <<umbrales_raster, classified_data, escritos>>
       \/ /\ umbrales_raster' = [nan |-> TRUE, bajo100 |-> 0, alto100 |-> 0]
          /\ classified_data' = Clasificada(data, NoData_value, umbrales_raster')
          /\ GuardarClasificado
    /\ UNCHANGED <<data, NoData_value, alertaVars, reproVars, torresVars, flotaVars, stdout>>

NextRaster == Clasificar \/ ClasificarVacio

SpecRaster == InitRaster /\ [][NextRaster]_vars

-----------------------------------------------------------------------------
(* Reprojector: reproyectar_raster_wgs84, applied to the classified raster.
   The geometry of the warp is an input: vecino[k] is the source cell nearest
   to the centre of destination cell k, or 0 when that centre lies outside
   the footprint of the source. *)

\* variant: every coordinate reference system is accepted
calculate_default_transform_permisivo(crs) == "ok"

\* calculate_default_transform(src.crs, dst_crs, ...): rasterio raises CRSError
\* for a coordinate reference system it cannot resolve
calculate_default_transform(crs) ==
    IF crs.src /\ crs.dst THEN "ok" ELSE "CRSError"

\* variant: a destination cell averages its source cell and the next one
reproject_promedio(fuente, vecino) ==
    [k \in 1..Len(vecino) |->
        IF vecino[k] = 0 THEN 0
        ELSE IF vecino[k] = Len(fuente) THEN fuente[vecino[k]]
        ELSE (fuente[vecino[k]] + fuente[vecino[k] + 1]) \div 2]

\* reproject(..., resampling=Resampling.nearest) into the band of dst, whose
\* nodata is the 0 of src.meta: a destination cell takes the value of its
\* nearest source cell and keeps the nodata fill where there is none
reproject(fuente, vecino) ==
    [k \in 1..Len(vecino) |-> IF vecino[k] = 0 THEN 0 ELSE fuente[vecino[k]]]

\* most cells of the classified source and of the reprojected raster
MaxFuente == 3

MaxDestino == 3

Clases == 0..3

InitReproyectar ==
    /\ pc = "reproyectar"
    /\ classified_data \in SeqsHasta(Clases, MaxFuente) \ {<< >>}
    /\ crs_resuelto \in [src : BOOLEAN, dst : BOOLEAN]
    /\ reproyectado = << >>
    /\ escritos = {}
    /\ stdout = << >>
    /\ data = << >>
    /\ NoData_value = 0
    /\ umbrales_raster = SinUmbrales
    /\ umbrales_df = << >>
    /\ amenaza = ""
    /\ lluvia_72h = 0
    /\ resultado = << >>
    /\ alerta_temporal = ""
    /\ precipitation = << >>
    /\ precip_acum_72h = << >>
    /\ nivel_alerta_temporal = << >>
    /\ estadisticas = SinEstadisticas
    /\ SinTorres
    /\ SinFlota

\* the transform cannot be computed: the exception leaves the function before
\* ruta_out is opened
ReproyectarSinCRS ==
    /\ pc = "reproyectar"
    /\ calculate_default_transform(crs_resuelto) # "ok"
    /\ pc' = calculate_default_transform(crs_resuelto)
    /\ UNCHANGED <<escritos, alertaVars, rasterVars, reproVars, torresVars, flotaVars, stdout>>

Reproyectar ==
    /\ pc = "reproyectar"
    /\ calculate_default_transform(crs_resuelto) = "ok"
    /\ \E n \in 1..MaxDestino :
           \E vecino \in [1..n -> 0..Len(classified_data)] :
               reproyectado' = reproject(classified_data, vecino)
    /\ escritos' = escritos \cup {"ruta_out"}
    /\ pc' = "reproyectado"
    /\ UNCHANGED <<crs_resuelto, alertaVars, rasterVars, torresVars, flotaVars, stdout>>

NextReproyectar == ReproyectarSinCRS \/ Reproyectar

SpecReproyectar == InitReproyectar /\ [][NextReproyectar]_vars

-----------------------------------------------------------------------------
(* TowerSampler: extraer_valores_torres on the WGS84 raster.
   Coordinates are held in millionths of a degree. *)

\* the example towers used when the tower file does not exist
TorresEjemplo ==
    <<[ID_Torre |-> "TORRE_001", Latitud |-> 7080000, Longitud |-> 0 - 72250000],
      [ID_Torre |-> "TORRE_002", Latitud |-> 7100000, Longitud |-> 0 - 72280000],
      [ID_Torre |-> "TORRE_003", Latitud |-> 6356094, Longitud |-> 0 - 70825931],
      [ID_Torre |-> "TORRE_004", Latitud |-> 7050000, Longitud |-> 0 - 72200000]>>

\* pd.read_csv(ruta_torres_csv), or the example towers on FileNotFoundError
leer_torres(archivo) == IF archivo.existe THEN archivo.filas ELSE TorresEjemplo

\* georeferencing of the WGS84 raster: upper-left corner, cell size, shape
Geo == [x0 |-> 0 - 72300000, y0 |-> 7110000, res |-> 50000, width |-> 2, height |-> 2]

\* variant: (Latitud, Longitud) pairs
coords_invertidas(torres) ==
    [i \in 1..Len(torres) |-> <<torres[i].Latitud, torres[i].Longitud>>]

\* coords = [(x, y) for x, y in zip(torres_df['Longitud'], torres_df['Latitud'])]
coords(torres) ==
    [i \in 1..Len(torres) |-> <<torres[i].Longitud, torres[i].Latitud>>]

\* dataset.index(x, y): row and column of the cell holding the point, floored
index(geo, x, y) ==
    [row |-> (geo.y0 - y) \div geo.res, col |-> (x - geo.x0) \div geo.res]

\* variant: a point outside the raster reads the nearest cell of the border
sample_borde(geo, celdas, xy) ==
    LET rc  == index(geo, xy[1], xy[2])
        row == IF rc.row < 0 THEN 0
               ELSE IF rc.row >= geo.height THEN geo.height - 1 ELSE rc.row
        col == IF rc.col < 0 THEN 0
               ELSE IF rc.col >= geo.width THEN geo.width - 1 ELSE rc.col
    IN  celdas[row * geo.width + col + 1]

\* one value of src.sample(coords): the cell holding the point, or the
\* dataset's nodata (0) for a point outside the raster
sample(geo, celdas, xy) ==
    LET rc == index(geo, xy[1], xy[2])
    IN  IF rc.row < 0 \/ rc.col < 0 \/ rc.row >= geo.height \/ rc.col >= geo.width
        THEN 0
        ELSE celdas[rc.row * geo.width + rc.col + 1]

\* Series.map(mapa_amenaza): a code the table does not hold maps to NaN
mapa_amenaza(valor) ==
    CASE valor = 1 -> "Baja"
      [] valor = 2 -> "Media"
      [] valor = 3 -> "Alta"
      [] valor = 0 -> "Sin Datos"
      [] OTHER -> "NaN"

extraer_valores_torres(archivo, geo, celdas) ==
    LET torres == leer_torres(archivo)
        valores_raster == [i \in 1..Len(torres) |-> sample(geo, celdas, coords(torres)[i])]
    IN  [i \in 1..Len(torres) |->
            [ID_Torre |-> torres[i].ID_Torre,
             Latitud |-> torres[i].Latitud,
             Longitud |-> torres[i].Longitud,
             Amenaza_Valor |-> valores_raster[i],
             Amenaza_Nivel |-> mapa_amenaza(valores_raster[i])]]

\* most towers of a tower file
MaxTorres == 3

IdsTorre == <<"TORRE_001", "TORRE_002", "TORRE_003", "TORRE_004", "TORRE_005">>

\* tower positions: the four example towers (two inside the raster, one far
\* away, one on its right edge) and two in the lower row of the raster
Puntos ==
    {<<TorresEjemplo[i].Longitud, TorresEjemplo[i].Latitud>> : i \in 1..4}
    \cup {<<0 - 72290000, 7020000>>, <<0 - 72210000, 7011000>>}

ArchivosTorres ==
    {[existe |-> FALSE, filas |-> << >>]}
    \cup {[existe |-> TRUE,
           filas |-> [i \in 1..Len(ps) |->
                        [ID_Torre |-> IdsTorre[i], Latitud |-> ps[i][2],
                         Longitud |-> ps[i][1]]]] :
              ps \in SeqsHasta(Puntos, MaxTorres) \ {<< >>}}

\* classified rasters of the shape of Geo, every cell with a different code
RastersWGS84 ==
    {[i \in 1..(Geo.width * Geo.height) |-> (i + k) % 4] : k \in Clases}

InitTorres ==
    /\ pc = "extraer"
    /\ torres_csv \in ArchivosTorres
    /\ reproyectado \in RastersWGS84
    /\ torres_df_raster = << >>
    /\ crs_resuelto = [src |-> TRUE, dst |-> TRUE]
    /\ escritos = {}
    /\ stdout = << >>
    /\ SinRaster
    /\ umbrales_df = << >>
    /\ amenaza = ""
    /\ lluvia_72h = 0
    /\ resultado = << >>
    /\ alerta_temporal = ""
    /\ precipitation = << >>
    /\ precip_acum_72h = << >>
    /\ nivel_alerta_temporal = << >>
    /\ estadisticas = SinEstadisticas
    /\ SinFlota

Extraer ==
    /\ pc = "extraer"
    /\ torres_df_raster' = extraer_valores_torres(torres_csv, Geo, reproyectado)
    /\ escritos' = escritos \cup {"ruta_salida"}
    /\ pc' = "extraido"
    /\ UNCHANGED <<torres_csv, alertaVars, rasterVars, reproVars, flotaVars, stdout>>

NextTorres == Extraer

SpecTorres == InitTorres /\ [][NextTorres]_vars

-----------------------------------------------------------------------------
(* Pipeline: pipeline_completo, the three stages called in a try block.
   Each stage is given with every way it can end: the exception it raises
   ("" when it returns), what it computed and the files it created. *)

Linea(texto) == [texto |-> texto, e |-> ""]

\* clasificar_raster_amenaza(ruta_in, ruta_out)
clasificar_raster_amenaza(celdas, nodata, ruta_out) ==
    LET reales == valores_reales(celdas, nodata)
        u == IF reales = << >>
             THEN [nan |-> TRUE, bajo100 |-> 0, alto100 |-> 0]
             ELSE [nan |-> FALSE, bajo100 |-> Cuantil100(reales, 33),
                   alto100 |-> Cuantil100(reales, 66)]
        hecho == [excepcion |-> "", umbrales |-> u,
                  clasificado |-> Clasificada(celdas, nodata, u),
                  archivos |-> {"histograma_amenaza.png", ruta_out}]
        sin_escribir == [hecho EXCEPT !.excepcion = "RasterioIOError",
                                      !.archivos = {"histograma_amenaza.png"}]
        sin_cuantil == [excepcion |-> "IndexError", umbrales |-> SinUmbrales,
                        clasificado |-> << >>, archivos |-> {}]
    IN  IF reales = << >> THEN {sin_cuantil, hecho, sin_escribir}
        ELSE {hecho, sin_escribir}

\* reproyectar_raster_wgs84(ruta_in, ruta_out) into a raster of the shape of Geo
reproyectar_raster_wgs84(fuente, crs, ruta_out) ==
    IF calculate_default_transform(crs) # "ok"
    THEN {[excepcion |-> calculate_default_transform(crs), reproyectado |-> << >>,
           archivos |-> {}]}
    ELSE {[excepcion |-> "", reproyectado |-> reproject(fuente, vecino),
           archivos |-> {ruta_out}] :
              vecino \in [1..(Geo.width * Geo.height) -> 0..Len(fuente)]}

\* extraer_valores_torres(ruta_torres_csv, ruta_raster, ruta_salida); to_csv
\* may fail once the table is complete
extraer_torres(archivo, geo, celdas, ruta_salida) ==
    {[excepcion |-> "", torres |-> extraer_valores_torres(archivo, geo, celdas),
      archivos |-> {ruta_salida}],
     [excepcion |-> "OSError", torres |-> extraer_valores_torres(archivo, geo, celdas),
      archivos |-> {}]}

\* variant: the handler prints the error and the pipeline goes on
salir_de_paso_tolerante(excepcion, siguiente) ==
    IF excepcion = ""
    THEN [pc |-> siguiente, lineas |-> << >>]
    ELSE [pc |-> siguiente,
          lineas |-> <<[texto |-> "Error durante el procesamiento", e |-> excepcion]>>]

\* the end of a call inside the try block: on return the pipeline goes on
\* with the next statement; on an exception the handler prints it and
\* re-raises it
salir_de_paso(excepcion, siguiente) ==
    IF excepcion = ""
    THEN [pc |-> siguiente, lineas |-> << >>]
    ELSE [pc |-> excepcion,
          lineas |-> <<[texto |-> "Error durante el procesamiento", e |-> excepcion]>>]

InitPipeline ==
    /\ pc = "pipeline"
    /\ NoData_value = 0 - 1
    /\ data \in {d \in Rasters(NoData_value) : Len(d) <= 2}
    /\ umbrales_raster = SinUmbrales
    /\ classified_data = << >>
    /\ crs_resuelto \in [src : BOOLEAN, dst : BOOLEAN]
    /\ reproyectado = << >>
    /\ torres_csv \in {a \in ArchivosTorres : Len(a.filas) <= 1}
    /\ torres_df_raster = << >>
    /\ escritos = {}
    /\ stdout = << >>
    /\ umbrales_df = << >>
    /\ amenaza = ""
    /\ lluvia_72h = 0
    /\ resultado = << >>
    /\ alerta_temporal = ""
    /\ precipitation = << >>
    /\ precip_acum_72h = << >>
    /\ nivel_alerta_temporal = << >>
    /\ estadisticas = SinEstadisticas
    /\ SinFlota

\* the opening banner and Paso 1: clasificar_raster_amenaza
PasoClasificar ==
    /\ pc = "pipeline"
    /\ \E r \in clasificar_raster_amenaza(data, NoData_value, "RUTA_RASTER_CLASIFICADO") :
           LET fin == salir_de_paso(r.excepcion, "paso_reproyectar")
           IN  /\ umbrales_raster' = r.umbrales
               /\ classified_data' = r.clasificado
               /\ escritos' = escritos \cup r.archivos
               /\ stdout' = stdout \o <<Linea("INICIANDO PIPELINE"), Linea("Paso 1")>>
                                    \o fin.lineas
               /\ pc' = fin.pc
    /\ UNCHANGED <<data, NoData_value, alertaVars, reproVars, torresVars, flotaVars>>

\* Paso 2: reproyectar_raster_wgs84
PasoReproyectar ==
    /\ pc = "paso_reproyectar"
    /\ \E r \in reproyectar_raster_wgs84(classified_data, crs_resuelto, "RUTA_RASTER_WGS84") :
           LET fin == salir_de_paso(r.excepcion, "paso_extraer")
           IN  /\ reproyectado' = r.reproyectado
               /\ escritos' = escritos \cup r.archivos
               /\ stdout' = stdout \o <<Linea("Paso 3")>> \o fin.lineas
               /\ pc' = fin.pc
    /\ UNCHANGED <<crs_resuelto, alertaVars, rasterVars, torresVars, flotaVars>>

\* Paso 3: extraer_valores_torres, and the closing banner when it returns
PasoExtraer ==
    /\ pc = "paso_extraer"
    /\ \E r \in extraer_torres(torres_csv, Geo, reproyectado, "RUTA_TORRES_OUTPUT") :
           LET fin == salir_de_paso(r.excepcion, "completado")
           IN  /\ torres_df_raster' = r.torres
               /\ escritos' = escritos \cup r.archivos
               /\ stdout' = stdout \o <<Linea("Paso 4")>> \o fin.lineas
                                    \o (IF fin.pc = "completado"
                                        THEN <<Linea("PIPELINE COMPLETADO EXITOSAMENTE")>>
                                        ELSE << >>)
               /\ pc' = fin.pc
    /\ UNCHANGED <<torres_csv, alertaVars, rasterVars, reproVars, flotaVars>>

NextPipeline == PasoClasificar \/ PasoReproyectar \/ PasoExtraer

SpecPipeline == InitPipeline /\ [][NextPipeline]_vars

-----------------------------------------------------------------------------
(* Inputs *)

NivelesAmenaza == {"Muy Baja", "Baja", "Media", "Alta", "Muy Alta"}

\* hazard names a tower may carry: the five of the matrix and the raster
\* sampler's "Sin Datos", which no matrix row names
Amenazas == NivelesAmenaza \cup {"Sin Datos"}

\* rows a threshold file may hold, ordered or not (yellow > red is not rejected)
FilasArchivo ==
    {Fila(n, Mm(120), a, r) : n \in {"Media", "Alta"},
                              a \in {Mm(150), Mm(200)}, r \in {Mm(150), Mm(200)}}

Archivos ==
    {[existe |-> FALSE, filas |-> << >>]}
    \cup {[existe |-> TRUE, filas |-> f] : f \in SeqsHasta(FilasArchivo, MaxFilas)}

\* accumulated-rainfall values around every boundary of the matrices above
Lluvias ==
    {0, Mm(100) - 1, Mm(100), Mm(120) - 1, Mm(120), Mm(150) - 1, Mm(150),
     Mm(200) - 1, Mm(200), Mm(300), Mm(100000)}

\* hourly rates of the step-shaped series, and the heights of isolated pulses
Tasas == {0, Mm(1), Mm(2)}

Alturas == {Mm(60), Mm(100)}

\* rate a for the first k hours and b afterwards, n hours in all
Escalon(a, k, b, n) == [i \in 1..n |-> IF i <= k THEN a ELSE b]

\* two one-hour pulses of height h, g dry hours between them and t after
Pulsos(h, g, t) ==
    <<h>> \o [i \in 1..g |-> 0] \o <<h>> \o [i \in 1..t |-> 0]

SeriesLluvia ==
    {Escalon(a, k, b, n) : a \in Tasas, k \in {0, Window}, b \in Tasas, n \in 1..MaxLen}
    \cup {Pulsos(h, g, t) : h \in Alturas, g \in (Window - 2)..Window, t \in 0..2}

\* threshold files of the selected-tower analysis: none (the default matrix)
\* or a file whose only row has yellow above red
ArchivosAnalisis ==
    {[existe |-> FALSE, filas |-> << >>],
     [existe |-> TRUE,  filas |-> <<Fila("Alta", Mm(120), Mm(200), Mm(150))>>]}

-----------------------------------------------------------------------------
(* Specification SpecEval: the two evaluators applied to one
   (hazard, accumulated rainfall) pair under a loaded matrix *)

InitEval ==
    /\ pc = "eval"
    /\ umbrales_df \in {cargar_umbrales(a) : a \in Archivos}
    /\ amenaza \in Amenazas
    /\ lluvia_72h \in Lluvias
    /\ resultado = << >>
    /\ alerta_temporal = ""
    /\ precipitation = << >>
    /\ precip_acum_72h = << >>
    /\ nivel_alerta_temporal = << >>
    /\ estadisticas = SinEstadisticas
    /\ SinRaster
    /\ escritos = {}
    /\ stdout = << >>
    /\ SinReproyeccion
    /\ SinTorres
    /\ SinFlota

EvaluarEscalar ==
    /\ pc = "eval"
    /\ resultado = << >>
    /\ resultado' = calcular_nivel_alerta(amenaza, lluvia_72h, umbrales_df)
    /\ UNCHANGED <<pc, umbrales_df, amenaza, lluvia_72h, alerta_temporal,
                   precipitation, precip_acum_72h, nivel_alerta_temporal,
                   estadisticas,
                   rasterVars, escritos, reproVars, torresVars, flotaVars, stdout>>

EvaluarTemporal ==
    /\ pc = "eval"
    /\ alerta_temporal = ""
    /\ alerta_temporal' = calcular_alerta_temporal(lluvia_72h, amenaza)
    /\ UNCHANGED <<pc, umbrales_df, amenaza, lluvia_72h, resultado,
                   precipitation, precip_acum_72h, nivel_alerta_temporal,
                   estadisticas,
                   rasterVars, escritos, reproVars, torresVars, flotaVars, stdout>>

NextEval == EvaluarEscalar \/ EvaluarTemporal

SpecEval == InitEval /\ [][NextEval]_vars

-----------------------------------------------------------------------------
(* Specification SpecVerde: the two evaluators, and their run again after the
   threshold matrix has been reloaded with other values in its
   Umbral_Verde_mm column only *)

\* the matrix with every green boundary set to verde
ConVerde(df, verde) ==
    [j \in 1..Len(df) |-> [df[j] EXCEPT !.Umbral_Verde_mm = verde]]

\* green boundaries below and above every other boundary
Verdes == {0, Mm(500)}

\* "Actualizar Datos de Lluvia": st.cache_data.clear() and st.rerun(), the
\* script loads the matrix anew and evaluates again
Recargar ==
    /\ pc = "eval"
    /\ resultado # << >>
    /\ alerta_temporal # ""
    /\ UNCHANGED <<pc, amenaza, lluvia_72h, precipitation, precip_acum_72h,
                   nivel_alerta_temporal, estadisticas,
                   rasterVars, escritos, reproVars, torresVars, flotaVars, stdout>>
    /\ \E verde \in Verdes : umbrales_df' = ConVerde(umbrales_df, verde)
    /\ resultado' = calcular_nivel_alerta(amenaza, lluvia_72h, umbrales_df')
    /\ alerta_temporal' = calcular_alerta_temporal(lluvia_72h, amenaza)'

NextVerde == EvaluarEscalar \/ EvaluarTemporal \/ Recargar

SpecVerde == InitEval /\ [][NextVerde]_vars

-----------------------------------------------------------------------------
(* Specification Spec: the detailed analysis of the selected tower, from the
   fetched precipitation series to the dwell-time statistics *)

Init ==
    /\ pc = "rolling"
    /\ umbrales_df \in {cargar_umbrales(a) : a \in ArchivosAnalisis}
    /\ amenaza \in {"Alta", "Sin Datos"}
    /\ precipitation \in SeriesLluvia
    /\ lluvia_72h = 0
    /\ resultado = << >>
    /\ alerta_temporal = ""
    /\ precip_acum_72h = << >>
    /\ nivel_alerta_temporal = << >>
    /\ estadisticas = SinEstadisticas
    /\ SinRaster
    /\ escritos = {}
    /\ stdout = << >>
    /\ SinReproyeccion
    /\ SinTorres
    /\ SinFlota

Acumular ==
    /\ pc = "rolling"
    /\ precip_acum_72h' = rolling_sum(precipitation, Window)
    /\ pc' = "apply"
    /\ UNCHANGED <<umbrales_df, amenaza, lluvia_72h, resultado, alerta_temporal,
                   precipitation, nivel_alerta_temporal, estadisticas,
                   rasterVars, escritos, reproVars, torresVars, flotaVars, stdout>>

AplicarAlerta ==
    /\ pc = "apply"
    /\ nivel_alerta_temporal' = apply_alerta(precip_acum_72h, amenaza)
    /\ pc' = "estadisticas"
    /\ UNCHANGED <<umbrales_df, amenaza, lluvia_72h, resultado, alerta_temporal,
                   precipitation, precip_acum_72h, estadisticas,
                   rasterVars, escritos, reproVars, torresVars, flotaVars, stdout>>

Estadisticas ==
    /\ pc = "estadisticas"
    /\ LET tiempo_roja     == Contar(nivel_alerta_temporal, "ROJA")
           tiempo_amarilla == Contar(nivel_alerta_temporal, "AMARILLA")
           tiempo_verde    == Contar(nivel_alerta_temporal, "VERDE")
           total_horas     == Len(precipitation)
       IN  \E dr \in Deltas(tiempo_roja, total_horas),
              da \in Deltas(tiempo_amarilla, total_horas),
              dv \in Deltas(tiempo_verde, total_horas) :
               estadisticas' =
                   [tiempo_roja |-> tiempo_roja, tiempo_amarilla |-> tiempo_amarilla,
                    tiempo_verde |-> tiempo_verde, total_horas |-> total_horas,
                    delta_roja |-> dr, delta_amarilla |-> da, delta_verde |-> dv]
    /\ pc' = "fin"
    /\ UNCHANGED <<umbrales_df, amenaza, lluvia_72h, resultado, alerta_temporal,
                   precipitation, precip_acum_72h, nivel_alerta_temporal,
                   rasterVars, escritos, reproVars, torresVars, flotaVars, stdout>>

Next == Acumular \/ AplicarAlerta \/ Estadisticas

Spec == Init /\ [][Next]_vars

-----------------------------------------------------------------------------
(* Specification SpecFlota: the evaluation of every tower of the fleet, from
   the tower table to the table sorted by priority *)

\* the answer of the weather API to one request: the request raised, or the
\* JSON has no 'hourly' key, or it holds the hourly precipitation
SinRespuesta == [excepcion |-> TRUE, hourly |-> FALSE, precipitation |-> << >>]

\* obtener_lluvia_torre: the hourly table, or None after any exception and
\* for a JSON without 'hourly'
obtener_lluvia_torre(respuesta) ==
    IF ~respuesta.excepcion /\ respuesta.hourly
    THEN [None |-> FALSE, precipitation |-> respuesta.precipitation]
    ELSE [None |-> TRUE, precipitation |-> << >>]

\* Series.sum()
RECURSIVE SumaHasta(_, _)
SumaHasta(serie, n) == IF n = 0 THEN 0 ELSE serie[n] + SumaHasta(serie, n - 1)

sum(serie) == SumaHasta(serie, Len(serie))

\* DataFrame.tail(n)
tail(serie, n) ==
    IF Len(serie) <= n THEN serie ELSE SubSeq(serie, Len(serie) - n + 1, Len(serie))

\* variant: a tower whose request failed gets no entry
fila_lluvia_omitida(torre, df_lluvia) ==
    IF df_lluvia.None THEN << >>
    ELSE <<[ID_Torre |-> torre.ID_Torre,
            Lluvia_72h |-> sum(df_lluvia.precipitation),
            Lluvia_24h |-> sum(tail(df_lluvia.precipitation, 24))]>>

\* the entries one pass of the loop appends to datos_lluvia
fila_lluvia(torre, df_lluvia) ==
    <<[ID_Torre |-> torre.ID_Torre,
       Lluvia_72h |-> IF df_lluvia.None THEN 0 ELSE sum(df_lluvia.precipitation),
       Lluvia_24h |-> IF df_lluvia.None THEN 0
                      ELSE sum(tail(df_lluvia.precipitation, 24))]>>

\* torres_df.merge(df_lluvia, on='ID_Torre'): the inner join, a row for every
\* pair of a tower and a rainfall entry with the same ID_Torre
RECURSIVE merge(_, _)
merge(izquierda, derecha) ==
    IF izquierda = << >> THEN << >>
    ELSE LET torre == Head(izquierda)
             parejas == SelectSeq(derecha, LAMBDA d : d.ID_Torre = torre.ID_Torre)
         IN  [j \in 1..Len(parejas) |->
                 [ID_Torre |-> torre.ID_Torre,
                  Amenaza_SGC |-> torre.Amenaza_SGC,
                  Lluvia_72h |-> parejas[j].Lluvia_72h,
                  Lluvia_24h |-> parejas[j].Lluvia_24h]]
             \o merge(Tail(izquierda), derecha)

\* torres_df.apply(lambda row: pd.Series(calcular_nivel_alerta(...)), axis=1)
\* assigned to the columns Nivel_Alerta, Emoji_Alerta, Prioridad
apply_nivel_alerta(tabla, df) ==
    [j \in 1..Len(tabla) |->
        LET r == calcular_nivel_alerta(tabla[j].Amenaza_SGC, tabla[j].Lluvia_72h, df)
        IN  [ID_Torre |-> tabla[j].ID_Torre,
             Amenaza_SGC |-> tabla[j].Amenaza_SGC,
             Lluvia_72h |-> tabla[j].Lluvia_72h,
             Lluvia_24h |-> tabla[j].Lluvia_24h,
             Nivel_Alerta |-> r[1], Emoji_Alerta |-> r[2], Prioridad |-> r[3]]]

\* variant: the table is left in its order
sort_values_sin_ordenar(tabla) == {tabla}

\* sort_values('Prioridad', ascending=False): the default quicksort is not
\* stable, so the result is any arrangement of the rows with the priorities
\* in descending order
RECURSIVE sort_values(_)
sort_values(tabla) ==
    IF tabla = << >> THEN {<< >>}
    ELSE LET fila == Head(tabla)
             Sitios(s) == {k \in 0..Len(s) :
                              /\ k = 0 \/ s[k].Prioridad >= fila.Prioridad
                              /\ k = Len(s) \/ s[k + 1].Prioridad <= fila.Prioridad}
         IN  UNION {{SubSeq(s, 1, k) \o <<fila>> \o SubSeq(s, k + 1, Len(s)) :
                        k \in Sitios(s)} : s \in sort_values(Tail(tabla))}

\* hours of the series fetched with dias=3: the four dates from three days
\* ago to today
HorasFlota == 96

\* tower tables: every tower with its own ID_Torre, or the last one
\* repeating the ID_Torre of the first
TablasTorres ==
    {[i \in 1..Len(as) |->
         [ID_Torre |-> IF rep /\ i = Len(as) THEN IdsTorre[1] ELSE IdsTorre[i],
          Amenaza_SGC |-> as[i]]] :
        as \in SeqsHasta({"Alta", "Sin Datos"}, MaxTorres) \ {<< >>}, rep \in BOOLEAN}

\* answers of the API: a failed request, a JSON without 'hourly', and series
\* summing 96, 108 and 144 mm
RespuestasAPI ==
    {SinRespuesta, [excepcion |-> FALSE, hourly |-> FALSE, precipitation |-> << >>]}
    \cup {[excepcion |-> FALSE, hourly |-> TRUE, precipitation |-> p] :
              p \in {Escalon(Mm(1), HorasFlota, 0, HorasFlota),
                      Escalon(Mm(2), 12, Mm(1), HorasFlota),
                      Escalon(Mm(2), Window, 0, HorasFlota)}}

InitFlota ==
    /\ pc = "consultar"
    /\ umbrales_df = UmbralesPorDefecto
    /\ torres_archivo \in TablasTorres
    /\ torres_df = torres_archivo
    /\ respuestas = << >>
    /\ datos_lluvia = << >>
    /\ amenaza = ""
    /\ lluvia_72h = 0
    /\ resultado = << >>
    /\ alerta_temporal = ""
    /\ precipitation = << >>
    /\ precip_acum_72h = << >>
    /\ nivel_alerta_temporal = << >>
    /\ estadisticas = SinEstadisticas
    /\ SinRaster
    /\ escritos = {}
    /\ stdout = << >>
    /\ SinReproyeccion
    /\ SinTorres

\* one pass of the loop over torres_df.iterrows()
ConsultarLluvia ==
    /\ pc = "consultar"
    /\ Len(respuestas) < Len(torres_df)
    /\ \E respuesta \in RespuestasAPI :
           LET torre == torres_df[Len(respuestas) + 1]
           IN  /\ respuestas' = Append(respuestas, respuesta)
               /\ datos_lluvia' =
                      datos_lluvia \o fila_lluvia(torre, obtener_lluvia_torre(respuesta))
    /\ UNCHANGED <<pc, escritos, umbrales_df, amenaza, lluvia_72h, resultado,
                   alerta_temporal, precipitation, precip_acum_72h,
                   nivel_alerta_temporal, estadisticas, torres_archivo, torres_df,
                   rasterVars, reproVars, torresVars, stdout>>

Combinar ==
    /\ pc = "consultar"
    /\ Len(respuestas) = Len(torres_df)
    /\ torres_df' = merge(torres_df, datos_lluvia)
    /\ pc' = "calcular"
    /\ UNCHANGED <<escritos, alertaVars, torres_archivo, respuestas, datos_lluvia,
                   rasterVars, reproVars, torresVars, stdout>>

CalcularAlertas ==
    /\ pc = "calcular"
    /\ torres_df' = apply_nivel_alerta(torres_df, umbrales_df)
    /\ pc' = "ordenar"
    /\ UNCHANGED <<escritos, alertaVars, torres_archivo, respuestas, datos_lluvia,
                   rasterVars, reproVars, torresVars, stdout>>

OrdenarPorPrioridad ==
    /\ pc = "ordenar"
    /\ torres_df' \in sort_values(torres_df)
    /\ pc' = "flota"
    /\ UNCHANGED <<escritos, alertaVars, torres_archivo, respuestas, datos_lluvia,
                   rasterVars, reproVars, torresVars, stdout>>

NextFlota == ConsultarLluvia \/ Combinar \/ CalcularAlertas \/ OrdenarPorPrioridad

SpecFlota == InitFlota /\ [][NextFlota]_vars

-----------------------------------------------------------------------------
(* Properties of the evaluators, checked under SpecEval *)

\* the row the matrix holds for a hazard: the first one that names it
TieneFila(df, nivel) == \E j \in 1..Len(df) : df[j].Amenaza_Nivel = nivel

PrimeraFila(df, nivel) ==
    df[CHOOSE j \in 1..Len(df) :
           /\ df[j].Amenaza_Nivel = nivel
           /\ \A k \in 1..(j - 1) : df[k].Amenaza_Nivel # nivel]

\* C1: for a hazard that has a row, calcular_nivel_alerta returns ROJA when
\* the value is at or above Umbral_Rojo_mm, otherwise AMARILLA when it is at or
\* above Umbral_Amarillo_mm, otherwise VERDE; a value equal to a boundary falls
\* in the higher state (row Media 150/200: 200 -> ROJA, 199.999 -> AMARILLA,
\* 149.999 -> VERDE).
C1_NivelPorUmbrales ==
    (resultado # << >> /\ TieneFila(umbrales_df, amenaza)) =>
        LET fila == PrimeraFila(umbrales_df, amenaza)
            rojo == fila.Umbral_Rojo_mm
            amarillo == fila.Umbral_Amarillo_mm
        IN  /\ lluvia_72h >= rojo => resultado[1] = "ROJA"
            /\ (lluvia_72h < rojo /\ lluvia_72h >= amarillo) => resultado[1] = "AMARILLA"
            /\ (lluvia_72h < rojo /\ lluvia_72h < amarillo) => resultado[1] = "VERDE"
            /\ (amenaza = "Media" /\ amarillo = Mm(150) /\ rojo = Mm(200)) =>
                   /\ lluvia_72h = Mm(200) => resultado[1] = "ROJA"
                   /\ lluvia_72h = Mm(200) - 1 => resultado[1] = "AMARILLA"
                   /\ lluvia_72h = Mm(150) - 1 => resultado[1] = "VERDE"

C1_Witness ==
    /\ amenaza = "Media"
    /\ umbrales_df = UmbralesPorDefecto
    /\ lluvia_72h = Mm(200)
    /\ resultado # << >>
    /\ resultado[1] = "ROJA"

\* C2: whatever the row, also one with the yellow boundary above the red one,
\* a value at or above both boundaries evaluates to ROJA, never AMARILLA, in
\* the scalar evaluator and in the per-sample evaluator.
C2_SobreAmbosEsRoja ==
    TieneFila(umbrales_df, amenaza) =>
        LET fila == PrimeraFila(umbrales_df, amenaza)
        IN  (lluvia_72h >= fila.Umbral_Rojo_mm /\ lluvia_72h >= fila.Umbral_Amarillo_mm) =>
                /\ resultado # << >> => resultado[1] = "ROJA"
                /\ alerta_temporal # "" => alerta_temporal = "ROJA"

C2_Witness ==
    /\ TieneFila(umbrales_df, amenaza)
    /\ PrimeraFila(umbrales_df, amenaza).Umbral_Amarillo_mm
           > PrimeraFila(umbrales_df, amenaza).Umbral_Rojo_mm
    /\ lluvia_72h >= PrimeraFila(umbrales_df, amenaza).Umbral_Amarillo_mm
    /\ resultado # << >>
    /\ resultado[1] = "ROJA"
    /\ alerta_temporal = "ROJA"

\* C3: a hazard name without a row in the matrix never fails and evaluates to
\* VERDE for every accumulated value, however large, in both evaluators.
C3_SinFilaEsVerde ==
    ~TieneFila(umbrales_df, amenaza) =>
        /\ resultado # << >> => resultado[1] = "VERDE"
        /\ alerta_temporal # "" => alerta_temporal = "VERDE"

C3_Witness ==
    /\ amenaza = "Sin Datos"
    /\ lluvia_72h = Mm(100000)
    /\ resultado # << >>
    /\ resultado[1] = "VERDE"
    /\ alerta_temporal = "VERDE"

-----------------------------------------------------------------------------
(* Properties of the selected-tower analysis, checked under Spec *)

Orden(nivel) == CASE nivel = "VERDE" -> 1 [] nivel = "AMARILLA" -> 2 [] nivel = "ROJA" -> 3

RECURSIVE SumaDirecta(_, _, _)
SumaDirecta(p, desde, hasta) ==
    IF desde > hasta THEN 0 ELSE p[hasta] + SumaDirecta(p, desde, hasta - 1)

Evaluada == pc \in {"estadisticas", "fin"}

\* C4: the alert state has no memory.  Within a series two samples with the
\* same accumulated value get the same state whatever states preceded them, and
\* for an ordered row a one-sample dip below (spike above) a boundary lowers
\* (raises) the state of exactly that sample.
C4_SinMemoria ==
    Evaluada =>
        LET acc == precip_acum_72h
            al  == nivel_alerta_temporal
            n   == Len(al)
        IN  /\ \A i, j \in 1..n : acc[i] = acc[j] => al[i] = al[j]
            /\ TieneFila(umbrales_df, amenaza) =>
                 LET fila == PrimeraFila(umbrales_df, amenaza)
                 IN  fila.Umbral_Amarillo_mm <= fila.Umbral_Rojo_mm =>
                       \A i \in 2..(n - 1) :
                         \A b \in {fila.Umbral_Amarillo_mm, fila.Umbral_Rojo_mm} :
                           /\ (acc[i - 1] >= b /\ acc[i] < b /\ acc[i + 1] >= b) =>
                                  /\ Orden(al[i]) < Orden(al[i - 1])
                                  /\ Orden(al[i]) < Orden(al[i + 1])
                           /\ (acc[i - 1] < b /\ acc[i] >= b /\ acc[i + 1] < b) =>
                                  /\ Orden(al[i]) > Orden(al[i - 1])
                                  /\ Orden(al[i]) > Orden(al[i + 1])

\* a one-sample dip: AMARILLA, VERDE, AMARILLA on 100 mm, 0 mm, 100 mm
C4_Witness ==
    /\ Evaluada
    /\ \E i \in 2..(Len(nivel_alerta_temporal) - 1) :
           /\ precip_acum_72h[i - 1] = precip_acum_72h[i + 1]
           /\ nivel_alerta_temporal[i - 1] = "AMARILLA"
           /\ nivel_alerta_temporal[i] = "VERDE"
           /\ nivel_alerta_temporal[i + 1] = "AMARILLA"

\* C5: the accumulated series has the length of the precipitation series and
\* entry i is the sum of the samples max(1, i - 71) .. i (1-based), the samples
\* available and no padding; for 100 samples of 1 mm the first 71 entries are
\* 1 .. 71 mm and the entries 72 .. 100 are 72 mm.
C5_SumaVentana ==
    pc = "apply" =>
        /\ Len(precip_acum_72h) = Len(precipitation)
        /\ \A i \in 1..Len(precipitation) :
               precip_acum_72h[i] =
                   SumaDirecta(precipitation, IF i - 71 > 1 THEN i - 71 ELSE 1, i)
        /\ (Len(precipitation) = 100 /\ \A i \in 1..100 : precipitation[i] = Mm(1)) =>
               /\ \A i \in 1..71 : precip_acum_72h[i] = Mm(i)
               /\ \A i \in 72..100 : precip_acum_72h[i] = Mm(72)

C5_Witness ==
    /\ pc = "apply"
    /\ Len(precipitation) = 100
    /\ \A i \in 1..100 : precipitation[i] = Mm(1)
    /\ precip_acum_72h[71] = Mm(71)
    /\ precip_acum_72h[100] = Mm(72)

\* C6: the series evaluation is the scalar evaluation applied pointwise: the
\* alert sequence is as long as the accumulated series and entry i is the
\* state name calcular_nivel_alerta returns for (hazard, accumulated[i]).
C6_SerieIgualEscalar ==
    Evaluada =>
        /\ Len(nivel_alerta_temporal) = Len(precip_acum_72h)
        /\ \A i \in 1..Len(precip_acum_72h) :
               nivel_alerta_temporal[i] =
                   calcular_nivel_alerta(amenaza, precip_acum_72h[i], umbrales_df)[1]

C6_Witness ==
    /\ Evaluada
    /\ \E i \in 1..Len(nivel_alerta_temporal) : nivel_alerta_temporal[i] = "VERDE"
    /\ \E i \in 1..Len(nivel_alerta_temporal) : nivel_alerta_temporal[i] = "AMARILLA"
    /\ \E i \in 1..Len(nivel_alerta_temporal) : nivel_alerta_temporal[i] = "ROJA"

\* C7: the dwell-time statistics partition the samples: every sample is in
\* exactly one of VERDE, AMARILLA, ROJA, the three counts add up to the series
\* length, and each reported proportion is count / length (as the percentage
\* with one decimal that is displayed).
C7_Particion ==
    pc = "fin" =>
        LET al == nivel_alerta_temporal
            n  == Len(precipitation)
            e  == estadisticas
            EnRango(delta, cuenta) ==
                /\ 2 * (delta * n - 1000 * cuenta) <= n
                /\ 2 * (1000 * cuenta - delta * n) <= n
        IN  /\ \A i \in 1..n : al[i] \in {"VERDE", "AMARILLA", "ROJA"}
            /\ e.tiempo_verde = Cardinality({i \in 1..n : al[i] = "VERDE"})
            /\ e.tiempo_amarilla = Cardinality({i \in 1..n : al[i] = "AMARILLA"})
            /\ e.tiempo_roja = Cardinality({i \in 1..n : al[i] = "ROJA"})
            /\ e.tiempo_verde + e.tiempo_amarilla + e.tiempo_roja = n
            /\ e.total_horas = n
            /\ EnRango(e.delta_verde, e.tiempo_verde)
            /\ EnRango(e.delta_amarilla, e.tiempo_amarilla)
            /\ EnRango(e.delta_roja, e.tiempo_roja)

C7_Witness ==
    /\ pc = "fin"
    /\ estadisticas.tiempo_verde > 0
    /\ estadisticas.tiempo_amarilla > 0
    /\ estadisticas.tiempo_roja > 0
    /\ estadisticas.delta_roja > 0

\* the end-to-end scenario: hazard Alta under the default matrix (yellow 100,
\* red 120), 2 mm per hour for 72 hours and 0 afterwards
EsEscenario ==
    /\ amenaza = "Alta"
    /\ umbrales_df = UmbralesPorDefecto
    /\ Len(precipitation) >= 72
    /\ \A i \in 1..Len(precipitation) :
           precipitation[i] = IF i <= 72 THEN Mm(2) ELSE 0

\* the rise of the scenario: 2 mm more each hour up to 144 mm at hour 72,
\* AMARILLA from hour 50 and ROJA from hour 60
SubidaEscenario ==
    \A i \in 1..72 :
        /\ precip_acum_72h[i] = Mm(2 * i)
        /\ nivel_alerta_temporal[i] =
               IF i < 50 THEN "VERDE" ELSE IF i < 60 THEN "AMARILLA" ELSE "ROJA"

\* C8 as stated: after hour 72 the accumulated series stays at 144 mm and the
\* state stays ROJA for all following hours.
C8_Original ==
    (Evaluada /\ EsEscenario) =>
        /\ SubidaEscenario
        /\ \A i \in 73..Len(precipitation) :
               /\ precip_acum_72h[i] = Mm(144)
               /\ nivel_alerta_temporal[i] = "ROJA"

\* C8, amended: the accumulated series rises by 2 mm per hour to 144 mm at hour
\* 72, crossing AMARILLA at hour 50 and ROJA at hour 60, and then falls by 2 mm
\* per hour as the 2 mm samples leave the 72-hour window (reaching 0 at hour
\* 144): the state is ROJA up to hour 84, AMARILLA for the hours 85 .. 94 and
\* VERDE from hour 95 on.
C8_SubeYBaja ==
    (Evaluada /\ EsEscenario) =>
        /\ SubidaEscenario
        /\ \A i \in 73..Len(precipitation) :
               /\ precip_acum_72h[i] = IF i <= 144 THEN Mm(144 - 2 * (i - 72)) ELSE 0
               /\ nivel_alerta_temporal[i] =
                      IF i <= 84 THEN "ROJA" ELSE IF i <= 94 THEN "AMARILLA" ELSE "VERDE"

C8_Witness ==
    /\ Evaluada
    /\ EsEscenario
    /\ Len(precipitation) >= 95
    /\ precip_acum_72h[72] = Mm(144)
    /\ precip_acum_72h[73] = Mm(142)
    /\ nivel_alerta_temporal[84] = "ROJA"
    /\ nivel_alerta_temporal[85] = "AMARILLA"
    /\ nivel_alerta_temporal[95] = "VERDE"

\* C9 as stated: over the whole series of the scenario the statistics report
\* 0% VERDE, a nonzero AMARILLA share and the remainder ROJA.
C9_Original ==
    (pc = "fin" /\ EsEscenario) =>
        /\ estadisticas.tiempo_verde = 0
        /\ estadisticas.delta_verde = 0
        /\ estadisticas.tiempo_amarilla > 0
        /\ estadisticas.tiempo_roja
               = estadisticas.total_horas - estadisticas.tiempo_amarilla

\* C9, amended: over the whole series of the scenario (n >= 72 hours) the
\* statistics report a nonzero VERDE share, the 49 hours before the 100 mm
\* crossing and every hour from 95 on, a nonzero AMARILLA share, the hours
\* 50 .. 59 and 85 .. 94, and the remainder ROJA, the hours 60 .. 84.
C9_TiemposEscenario ==
    (pc = "fin" /\ EsEscenario) =>
        LET n == Len(precipitation)
            e == estadisticas
        IN  /\ e.tiempo_verde = 49 + (IF n > 94 THEN n - 94 ELSE 0)
            /\ e.delta_verde > 0
            /\ e.tiempo_amarilla = 10 + (IF n > 94 THEN 10 ELSE IF n > 84 THEN n - 84 ELSE 0)
            /\ e.tiempo_amarilla > 0
            /\ e.tiempo_roja = e.total_horas - e.tiempo_verde - e.tiempo_amarilla
            /\ e.tiempo_roja = (IF n > 84 THEN 84 ELSE n) - 59
            /\ e.tiempo_roja > 0

C9_Witness ==
    /\ pc = "fin"
    /\ EsEscenario
    /\ Len(precipitation) = 100
    /\ estadisticas.tiempo_verde = 55
    /\ estadisticas.tiempo_amarilla = 20
    /\ estadisticas.tiempo_roja = 25
    /\ estadisticas.delta_verde = 550

\* the row of the tower's hazard has its yellow boundary at or below the red
FilaOrdenada ==
    /\ TieneFila(umbrales_df, amenaza)
    /\ PrimeraFila(umbrales_df, amenaza).Umbral_Amarillo_mm
           <= PrimeraFila(umbrales_df, amenaza).Umbral_Rojo_mm

\* C23: for a threshold row with Umbral_Amarillo_mm <= Umbral_Rojo_mm the
\* alert state is monotone in rainfall, in the order VERDE < AMARILLA < ROJA:
\* v1 <= v2 implies state(hazard, v1) <= state(hazard, v2); hence for a
\* non-negative precipitation series the state never decreases during the
\* first 72 samples.
C23_Monotona ==
    (Evaluada /\ FilaOrdenada) =>
        /\ \A i \in 1..Len(precip_acum_72h), u \in Lluvias :
               LET v == precip_acum_72h[i]
                   escalar(x) == Orden(calcular_nivel_alerta(amenaza, x, umbrales_df)[1])
                   temporal(x) == Orden(calcular_alerta_temporal(x, amenaza))
               IN  /\ u <= v => /\ escalar(u) <= escalar(v)
                                /\ temporal(u) <= Orden(nivel_alerta_temporal[i])
                   /\ u >= v => /\ escalar(u) >= escalar(v)
                                /\ temporal(u) >= Orden(nivel_alerta_temporal[i])
        /\ (\A i \in 1..Len(precipitation) : precipitation[i] >= 0) =>
               \A i \in 1..(Len(precipitation) - 1) :
                   i < Window =>
                       Orden(nivel_alerta_temporal[i]) <= Orden(nivel_alerta_temporal[i + 1])

C23_Witness ==
    /\ pc = "fin"
    /\ FilaOrdenada
    /\ Len(precipitation) > Window
    /\ nivel_alerta_temporal[1] = "VERDE"
    /\ nivel_alerta_temporal[50] = "AMARILLA"
    /\ nivel_alerta_temporal[60] = "ROJA"
    /\ nivel_alerta_temporal[Window] = "ROJA"

-----------------------------------------------------------------------------
(* Property of the reloaded matrix, checked under SpecVerde *)

\* the two matrices agree in everything but Umbral_Verde_mm
SoloVerdeDifiere(a, b) ==
    /\ Len(a) = Len(b)
    /\ \A j \in 1..Len(a) :
           /\ a[j].Amenaza_Nivel = b[j].Amenaza_Nivel
           /\ a[j].Umbral_Amarillo_mm = b[j].Umbral_Amarillo_mm
           /\ a[j].Umbral_Rojo_mm = b[j].Umbral_Rojo_mm

\* C24: the green boundary never influences the result: two matrices that
\* differ only in Umbral_Verde_mm give the same alert state and priority for
\* every hazard and accumulated value, in the scalar and in the series
\* evaluator.
C24_VerdeNoInfluye ==
    [][(/\ resultado # << >>
        /\ alerta_temporal # ""
        /\ SoloVerdeDifiere(umbrales_df, umbrales_df')
        /\ amenaza' = amenaza
        /\ lluvia_72h' = lluvia_72h)
       => (resultado' = resultado /\ alerta_temporal' = alerta_temporal)]_vars

C24_Witness ==
    /\ TieneFila(umbrales_df, amenaza)
    /\ PrimeraFila(umbrales_df, amenaza).Umbral_Verde_mm = Mm(500)
    /\ lluvia_72h < Mm(500)
    /\ resultado # << >>
    /\ resultado[1] = "ROJA"
    /\ resultado[3] = 3
    /\ alerta_temporal = "ROJA"

-----------------------------------------------------------------------------
(* Properties of the raster classification, checked under SpecRaster *)

\* C10: every cell that is not NoData is classified by band, the cutoff
\* belonging to the lower band: value <= lowCut -> 1, lowCut < value <= highCut
\* -> 2, value > highCut -> 3 (a cell equal to lowCut gets 1, a cell equal to
\* highCut gets 2).
C10_ClasePorBanda ==
    (pc = "clasificado" /\ ~umbrales_raster.nan) =>
        \A i \in 1..Len(data) :
            data[i] # NoData_value =>
                /\ 100 * data[i] <= umbrales_raster.bajo100 => classified_data[i] = 1
                /\ (100 * data[i] > umbrales_raster.bajo100
                    /\ 100 * data[i] <= umbrales_raster.alto100) => classified_data[i] = 2
                /\ 100 * data[i] > umbrales_raster.alto100 => classified_data[i] = 3

\* the classification step has run to its end or to an exception
ClasificacionTerminada == pc \in {"clasificado", "IndexError", "RasterioIOError"}

\* C11: for every grid and every NoData sentinel (below, between or above the
\* cell values) the classification is total and non-overlapping: every NoData
\* cell gets code 0, every other cell gets exactly one code of {1, 2, 3}, and
\* the four counts add up to the number of cells.
C11_TotalSinSolape ==
    (ClasificacionTerminada /\ classified_data # << >>) =>
        /\ Len(classified_data) = Len(data)
        /\ \A i \in 1..Len(data) :
               /\ data[i] = NoData_value => classified_data[i] = 0
               /\ data[i] # NoData_value => classified_data[i] \in {1, 2, 3}
        /\ Contar(classified_data, 1) + Contar(classified_data, 2)
               + Contar(classified_data, 3) + Contar(data, NoData_value) = Len(data)

\* C12: classifying a grid without any non-NoData cell fails with
\* EmptyDistributionError, writes no classified raster and uses no thresholds.
C12_VacioFalla ==
    (ClasificacionTerminada /\ valores_reales(data, NoData_value) = << >>) =>
        /\ pc = "EmptyDistributionError"
        /\ "ruta_out" \notin escritos
        /\ umbrales_raster = SinUmbrales

\* C13: for every grid with at least one non-NoData cell the thresholds
\* satisfy umbral_bajo <= umbral_alto, and when they are equal the
\* classification is still computed and no cell gets code 2.
C13_CortesOrdenados ==
    (ClasificacionTerminada /\ valores_reales(data, NoData_value) # << >>) =>
        /\ ~umbrales_raster.nan
        /\ umbrales_raster.bajo100 <= umbrales_raster.alto100
        /\ Len(classified_data) = Len(data)
        /\ umbrales_raster.bajo100 = umbrales_raster.alto100 =>
               \A i \in 1..Len(data) : classified_data[i] # 2

C13_Witness ==
    /\ pc = "clasificado"
    /\ umbrales_raster.bajo100 = umbrales_raster.alto100
    /\ \E i \in 1..Len(data) : 100 * data[i] = umbrales_raster.bajo100
                                /\ classified_data[i] = 1
    /\ \E i \in 1..Len(data) : classified_data[i] = 3

\* C19: every pipeline operation is all-or-nothing: when a call fails at any
\* step, none of its output files has been created or partly written; stated
\* here for clasificar_raster_amenaza and its histogram and classified raster.
C19_TodoONada ==
    pc \in {"IndexError", "RasterioIOError"} => escritos = {}

-----------------------------------------------------------------------------
(* Properties of the reprojection, checked under SpecReproyectar *)

OcurreEnFuente(v) == \E i \in 1..Len(classified_data) : classified_data[i] = v

\* C14 as stated: every cell of the reprojected raster holds a value that
\* occurs in some cell of the source raster.
C14_Original ==
    pc = "reproyectado" =>
        \A k \in 1..Len(reproyectado) : OcurreEnFuente(reproyectado[k])

\* C14: every cell of the reprojected raster holds a value that occurs in
\* some cell of the source raster or the NoData code 0, which fills the cells
\* outside the footprint of the source; no other value is introduced.
C14_SinClaseNueva ==
    pc = "reproyectado" =>
        \A k \in 1..Len(reproyectado) :
            reproyectado[k] = 0 \/ OcurreEnFuente(reproyectado[k])

C14_Witness ==
    /\ pc = "reproyectado"
    /\ OcurreEnFuente(1) /\ OcurreEnFuente(3)
    /\ ~OcurreEnFuente(0) /\ ~OcurreEnFuente(2)
    /\ \E k \in 1..Len(reproyectado) : reproyectado[k] = 0
    /\ \E k \in 1..Len(reproyectado) : reproyectado[k] = 1
    /\ \E k \in 1..Len(reproyectado) : reproyectado[k] = 3

-----------------------------------------------------------------------------
(* Properties of the tower sampler, checked under SpecTorres *)

\* the towers handed to the sampler
TorresLeidas == IF torres_csv.existe THEN torres_csv.filas ELSE TorresEjemplo

\* the point lies beyond the bounds of the raster
FueraDeExtension(x, y) ==
    \/ x < Geo.x0
    \/ x > Geo.x0 + Geo.width * Geo.res
    \/ y > Geo.y0
    \/ y < Geo.y0 - Geo.height * Geo.res

\* the cell (row r, column c, from 0) covers the point
CeldaCubre(r, c, x, y) ==
    /\ Geo.x0 + c * Geo.res <= x
    /\ x < Geo.x0 + (c + 1) * Geo.res
    /\ Geo.y0 - r * Geo.res >= y
    /\ y > Geo.y0 - (r + 1) * Geo.res

\* C16: a tower outside the extent of the raster does not make the call
\* fail: it gets code 0 and label "Sin Datos", and every other tower of the
\* call is sampled as well.
C16_FueraEsSinDatos ==
    pc # "extraer" =>
        /\ pc = "extraido"
        /\ Len(torres_df_raster) = Len(TorresLeidas)
        /\ \A i \in 1..Len(TorresLeidas) :
               FueraDeExtension(TorresLeidas[i].Longitud, TorresLeidas[i].Latitud) =>
                   /\ torres_df_raster[i].Amenaza_Valor = 0
                   /\ torres_df_raster[i].Amenaza_Nivel = "Sin Datos"
        /\ \A i \in 1..Len(TorresLeidas) :
               \A r \in 0..(Geo.height - 1), c \in 0..(Geo.width - 1) :
                   CeldaCubre(r, c, TorresLeidas[i].Longitud, TorresLeidas[i].Latitud) =>
                       torres_df_raster[i].Amenaza_Valor = reproyectado[r * Geo.width + c + 1]

C16_Witness ==
    /\ pc = "extraido"
    /\ Len(torres_df_raster) = 3
    /\ FueraDeExtension(TorresLeidas[2].Longitud, TorresLeidas[2].Latitud)
    /\ torres_df_raster[2].Amenaza_Nivel = "Sin Datos"
    /\ torres_df_raster[1].Amenaza_Nivel = "Alta"
    /\ torres_df_raster[3].Amenaza_Nivel = "Baja"

\* C17: extraer_valores_torres yields one value per tower, in input order,
\* sampled at (x = Longitud, y = Latitud), and every code is mapped by the
\* table 0 -> Sin Datos, 1 -> Baja, 2 -> Media, 3 -> Alta, so every tower of
\* the output has a label of that table.
C17_UnValorPorTorre ==
    pc = "extraido" =>
        /\ Len(torres_df_raster) = Len(TorresLeidas)
        /\ \A i \in 1..Len(TorresLeidas) :
               LET fila == torres_df_raster[i]
                   x == TorresLeidas[i].Longitud
                   y == TorresLeidas[i].Latitud
               IN  /\ fila.ID_Torre = TorresLeidas[i].ID_Torre
                   /\ \A r \in 0..(Geo.height - 1), c \in 0..(Geo.width - 1) :
                          CeldaCubre(r, c, x, y) =>
                              fila.Amenaza_Valor = reproyectado[r * Geo.width + c + 1]
                   /\ (fila.Amenaza_Valor = 0) <=> (fila.Amenaza_Nivel = "Sin Datos")
                   /\ (fila.Amenaza_Valor = 1) <=> (fila.Amenaza_Nivel = "Baja")
                   /\ (fila.Amenaza_Valor = 2) <=> (fila.Amenaza_Nivel = "Media")
                   /\ (fila.Amenaza_Valor = 3) <=> (fila.Amenaza_Nivel = "Alta")
                   /\ fila.Amenaza_Nivel \in {"Sin Datos", "Baja", "Media", "Alta"}

C17_Witness ==
    /\ pc = "extraido"
    /\ ~torres_csv.existe
    /\ reproyectado = <<1, 2, 3, 0>>
    /\ Len(torres_df_raster) = 4
    /\ torres_df_raster[1].Amenaza_Nivel = "Media"
    /\ torres_df_raster[2].Amenaza_Nivel = "Baja"
    /\ torres_df_raster[3].Amenaza_Nivel = "Sin Datos"
    /\ torres_df_raster[4].Amenaza_Nivel = "Sin Datos"

-----------------------------------------------------------------------------
(* Properties of the fleet evaluation, checked under SpecFlota *)

\* every row of the table carries its alert columns
FlotaEvaluada == pc \in {"ordenar", "flota"}

EstadosAlerta == {"VERDE", "AMARILLA", "ROJA"}

\* no two towers of the input table share their ID_Torre
IdsDistintos ==
    \A i, j \in 1..Len(torres_archivo) :
        i # j => torres_archivo[i].ID_Torre # torres_archivo[j].ID_Torre

\* rows of the evaluated table that belong to input tower i
FilasDeTorre(i) ==
    {j \in 1..Len(torres_df) :
        /\ torres_df[j].ID_Torre = torres_archivo[i].ID_Torre
        /\ torres_df[j].Amenaza_SGC = torres_archivo[i].Amenaza_SGC}

\* C18 as stated: whatever the tower table, with unknown hazard names and
\* failed precipitation requests, the evaluated table holds exactly one row
\* per input tower, each with one alert state.
C18_Original ==
    FlotaEvaluada =>
        /\ Len(torres_df) = Len(torres_archivo)
        /\ \A i \in 1..Len(torres_archivo) : FilasDeTorre(i) # {}
        /\ \A j \in 1..Len(torres_df) : torres_df[j].Nivel_Alerta \in EstadosAlerta

\* C18: no tower is dropped or halts the others: for every tower table whose
\* ID_Torre values are pairwise distinct, with unknown hazard names and
\* failed precipitation requests, the evaluated table holds exactly one row
\* per input tower, each with one alert state; a tower whose request failed
\* is evaluated with 0 mm.
C18_UnaFilaPorTorre ==
    (FlotaEvaluada /\ IdsDistintos) =>
        /\ Len(torres_df) = Len(torres_archivo)
        /\ \A i \in 1..Len(torres_archivo) :
               /\ Cardinality(FilasDeTorre(i)) = 1
               /\ \A j \in FilasDeTorre(i) :
                      obtener_lluvia_torre(respuestas[i]).None =>
                          torres_df[j].Lluvia_72h = 0
        /\ \A j \in 1..Len(torres_df) : torres_df[j].Nivel_Alerta \in EstadosAlerta

C18_Witness ==
    /\ pc = "flota"
    /\ IdsDistintos
    /\ Len(torres_archivo) = 3
    /\ Len(torres_df) = 3
    /\ torres_archivo[1].Amenaza_SGC = "Sin Datos"
    /\ respuestas[1].hourly
    /\ respuestas[2].excepcion
    /\ torres_archivo[3].Amenaza_SGC = "Alta"
    /\ sum(respuestas[3].precipitation) = Mm(144)
    /\ torres_df[1].Nivel_Alerta = "ROJA"

\* C20 as stated: every result with the same state name carries the same
\* priority, and after the sort every ROJA row precedes every AMARILLA row
\* and every AMARILLA row precedes every VERDE row.
C20_Original ==
    FlotaEvaluada =>
        /\ \A j, k \in 1..Len(torres_df) :
               torres_df[j].Nivel_Alerta = torres_df[k].Nivel_Alerta =>
                   torres_df[j].Prioridad = torres_df[k].Prioridad
        /\ pc = "flota" =>
               \A j, k \in 1..Len(torres_df) :
                   j < k => Orden(torres_df[j].Nivel_Alerta) >= Orden(torres_df[k].Nivel_Alerta)

\* C20: ROJA carries priority 3, AMARILLA 2, and VERDE 1 for a hazard of the
\* matrix and 0 for a hazard without a row, so the priorities order the states
\* VERDE < AMARILLA < ROJA and after the sort by priority descending every
\* ROJA row precedes every AMARILLA row and every AMARILLA row every VERDE row.
C20_PrioridadPorEstado ==
    FlotaEvaluada =>
        /\ \A j \in 1..Len(torres_df) :
               LET fila == torres_df[j]
               IN  /\ fila.Nivel_Alerta = "ROJA" => fila.Prioridad = 3
                   /\ fila.Nivel_Alerta = "AMARILLA" => fila.Prioridad = 2
                   /\ fila.Nivel_Alerta = "VERDE" =>
                          fila.Prioridad = IF TieneFila(umbrales_df, fila.Amenaza_SGC)
                                           THEN 1 ELSE 0
        /\ pc = "flota" =>
               \A j, k \in 1..Len(torres_df) :
                   j < k => Orden(torres_df[j].Nivel_Alerta) >= Orden(torres_df[k].Nivel_Alerta)

C20_Witness ==
    /\ pc = "flota"
    /\ Len(torres_archivo) = 3
    /\ torres_archivo[1].Amenaza_SGC = "Sin Datos"
    /\ Len(torres_df) = 3
    /\ torres_df[1].Nivel_Alerta = "ROJA"
    /\ torres_df[2].Nivel_Alerta = "AMARILLA"
    /\ torres_df[3].Nivel_Alerta = "VERDE"
    /\ torres_df[3].ID_Torre = torres_archivo[1].ID_Torre

\* C22: the accumulated rainfall that triggers the fleet alert of a tower is
\* the sum of the last 72 hourly samples of its precipitation series, whatever
\* the length of the fetched series.
C22_SumaUltimas72 ==
    \A i \in 1..Len(datos_lluvia) :
        ~obtener_lluvia_torre(respuestas[i]).None =>
            LET p == respuestas[i].precipitation
            IN  datos_lluvia[i].Lluvia_72h =
                    SumaDirecta(p, IF Len(p) > Window THEN Len(p) - Window + 1 ELSE 1, Len(p))

-----------------------------------------------------------------------------
(* Properties of the pipeline, checked under SpecPipeline *)

\* place of a printed line in a complete run
Rango(texto) ==
    CASE texto = "INICIANDO PIPELINE" -> 0
      [] texto = "Paso 1" -> 1
      [] texto = "Paso 3" -> 2
      [] texto = "Paso 4" -> 3
      [] texto = "PIPELINE COMPLETADO EXITOSAMENTE" -> 4
      [] texto = "Error durante el procesamiento" -> 5

Impresa(texto) == \E i \in 1..Len(stdout) : stdout[i].texto = texto

\* C21: pipeline_completo runs the stages in the order classify, reproject,
\* sample, each one starting only after the previous one has completed; when
\* a stage raises, no later stage runs, the success banner is not printed and
\* the exception is re-raised to the caller.
C21_EtapasEnOrden ==
    /\ \A i, j \in 1..Len(stdout) :
           i < j => Rango(stdout[i].texto) < Rango(stdout[j].texto)
    /\ Impresa("Paso 3") =>
           /\ Impresa("Paso 1")
           /\ "RUTA_RASTER_CLASIFICADO" \in escritos
           /\ Len(classified_data) = Len(data)
    /\ Impresa("Paso 4") =>
           /\ Impresa("Paso 3")
           /\ "RUTA_RASTER_WGS84" \in escritos
           /\ reproyectado # << >>
    /\ Impresa("PIPELINE COMPLETADO EXITOSAMENTE") =>
           /\ pc = "completado"
           /\ Impresa("Paso 4")
           /\ "RUTA_TORRES_OUTPUT" \in escritos
    /\ \A i \in 1..Len(stdout) :
           stdout[i].texto = "Error durante el procesamiento" =>
               /\ i = Len(stdout)
               /\ pc = stdout[i].e
               /\ ~Impresa("PIPELINE COMPLETADO EXITOSAMENTE")
               /\ ~Impresa("Paso 3") => reproyectado = << >>
               /\ ~Impresa("Paso 4") => torres_df_raster = << >>
    /\ pc \notin {"pipeline", "paso_reproyectar", "paso_extraer", "completado"} =>
           /\ Impresa("Error durante el procesamiento")
           /\ "RUTA_TORRES_OUTPUT" \notin escritos

C21_Witness ==
    /\ pc = "CRSError"
    /\ Impresa("Paso 1")
    /\ Impresa("Paso 3")
    /\ ~Impresa("Paso 4")
    /\ stdout[Len(stdout)] = [texto |-> "Error durante el procesamiento", e |-> "CRSError"]
    /\ "RUTA_RASTER_CLASIFICADO" \in escritos
    /\ torres_df_raster = << >>

====
